---- MODULE Spec2Model ----
(***************************************************************************)
(* A model of openvisualizer's MoteProbe (motehandler/moteprobe/           *)
(* moteprobe.py): the acquisition worker and its HDLC frame assembly, the  *)
(* send path, and cooperative shutdown; and of the boot_motes command of   *)
(* OpenVisualizerServer (main.py) with the simulation engine it drives.    *)
(*                                                                         *)
(* Bytes are the integers 0..255.  One step of the worker is one read unit *)
(* (one return of the transport's read call) run through the per-byte loop *)
(* of MoteProbe.run; the other threads (the connector that assigns         *)
(* send_to_parser, the caller of close(), the MQTT callback, the callers   *)
(* of _send_data) interleave between read units.                           *)
(***************************************************************************)
EXTENDS Integers, Sequences, FiniteSets, TLC

VARIABLES
    mode,               \* MoteProbe.mode, fixed at construction
    worker,             \* position of the thread running MoteProbe.run
    quit,               \* MoteProbe.quit
    send_to_parser,     \* TRUE once a frame consumer has been assigned
    is_receiving,       \* MoteProbe.is_receiving (InFrame)
    xonxoff_escaping,   \* MoteProbe.xonxoff_escaping
    input_buf,          \* MoteProbe.input_buf
    last_rx_byte,       \* MoteProbe.last_rx_byte
    serialbytes_queue,  \* MoteProbe.serialbytes_queue (testbed mode)
    serial,             \* MoteProbe.serial: the transport handle
    peer_closed,        \* the TCP peer has closed the connection (IoT-LAB mode)
    uart,               \* the emulated UART, as the probe's calls drive it
    timed_out,          \* history: the last serial read returned no byte
    overflowed,         \* history: an inbound message found the queue full
    published,          \* history: calls of send_to_parser, [payload, at]
    handed,             \* history: buffers given to dehdlcify,
                        \*   [buf, at, ok, payload, consumer]
    escape_run,         \* history: consecutive bytes after which xonxoff_escaping was set
    nrx,                \* history: number of bytes run through the per-byte loop
    units_after_close,  \* history: read units processed after close() was called
    wire,               \* scripted input (SpecResync): [first, second, total, rest]
    senders,            \* per calling thread: its position in _send_data
    turns,              \* history: the callers whose bytes the transport accepted,
                        \*   in order, a run of bytes of one caller counted once
    mqtt_out,           \* history: serialbytes lists published on the command topic
    simulator_mode,     \* OpenVisualizerServer.simulator_mode: the number of
                        \*   emulated motes, 0 on real hardware
    sim_paused,         \* the simulation engine is paused
    sim_time,           \* simengine.timeline.get_current_time()
    mote_on,            \* hw_supply.mote_on of each emulated mote, by rank
    timeline,           \* the events scheduled and not yet executed, [at, mote]
    boot_log,           \* history: the boot_motes commands that have ended
    discovery,          \* the transport-mode configuration the server was given
    mote_probes,        \* OpenVisualizerServer.mote_probes: the port name of each
    mote_addr,          \* the 16-bit address each mote's id manager reports
    dagroot,            \* OpenVisualizerServer.dagroot
    last_rpc,           \* history: the last command served and its outcome
    root_mote,          \* history: the mote of the last set_root that returned
    scan,               \* find_serial_ports: its position, locals and probes
    finder              \* OpentestbedMoteFinder: its set and its MQTT client

probe_vars == <<mode, worker, quit, send_to_parser, is_receiving, xonxoff_escaping,
                input_buf, last_rx_byte, serialbytes_queue, serial, peer_closed, uart,
                timed_out, overflowed, published, handed, escape_run, nrx, units_after_close, wire>>
send_vars == <<senders, turns, mqtt_out>>
server_vars == <<simulator_mode, sim_paused, sim_time, mote_on, timeline, boot_log>>
registry_vars == <<discovery, mote_probes, mote_addr, dagroot, last_rpc, root_mote>>
finding_vars == <<scan, finder>>
vars == <<mode, worker, quit, send_to_parser, is_receiving, xonxoff_escaping,
          input_buf, last_rx_byte, serialbytes_queue, serial, peer_closed, uart,
          timed_out, overflowed, published, handed, escape_run, nrx, units_after_close, wire,
          senders, turns, mqtt_out,
          simulator_mode, sim_paused, sim_time, mote_on, timeline, boot_log,
          discovery, mote_probes, mote_addr, dagroot, last_rpc, root_mote,
          scan, finder>>

----------------------------------------------------------------------------
(* Program constants *)

XOFF == 19
XON == 17
XONXOFF_ESCAPE == 18
XONXOFF_MASK == 16
QUEUE_MAXSIZE == 10

\* openhdlc.OpenHdlc: the reserved flag byte, the stuffing escape byte and the
\* stuffed forms of both (standard HDLC asynchronous framing).
HDLC_FLAG == 126
HDLC_ESCAPE == 125
HDLC_FLAG_ESCAPED == 94
HDLC_ESCAPE_ESCAPED == 93

MODE_SERIAL == "MODE_SERIAL"
MODE_EMULATED == "MODE_EMULATED"
MODE_IOTLAB == "MODE_IOTLAB"
MODE_TESTBED == "MODE_TESTBED"
MoteModes == {MODE_SERIAL, MODE_EMULATED, MODE_IOTLAB, MODE_TESTBED}

----------------------------------------------------------------------------
(* Bounds of the model *)

MaxStream == 4      \* bytes run through frame assembly in one behaviour
MaxUnit == 2        \* bytes in one read unit
MaxPayload == 1     \* bytes in a payload given to _send_data
MaxWrites == 2      \* serial.write calls issued by one _send_data
MaxQueued == 1      \* inbound MQTT messages waiting in the queue

\* The bytes the transports deliver in any order: the flag, the stuffing
\* escape, the flow-control escape, XON, and a data byte.
RxBytes == {HDLC_FLAG, HDLC_ESCAPE, XONXOFF_ESCAPE, XON, 65}

\* The bytes of outbound payloads: the flag, the stuffing escape, a data byte.
TxBytes == {HDLC_FLAG, HDLC_ESCAPE, 65}

SeqsUpTo(S, n) == UNION {[1..k -> S] : k \in 0..n}

Units == SeqsUpTo(RxBytes, MaxUnit)

\* The serialbytes lists of inbound MQTT messages.
MqttBytes == {HDLC_FLAG, HDLC_ESCAPE, 65}

Messages == SeqsUpTo(MqttBytes, MaxUnit)

Payloads == SeqsUpTo(TxBytes, MaxPayload)

Senders == {"t1", "t2"}

----------------------------------------------------------------------------
(* FrameCodec: openhdlc.OpenHdlc.hdlcify / dehdlcify *)

RECURSIVE Stuff(_)
Stuff(p) ==
    IF p = <<>> THEN <<>>
    ELSE LET b == Head(p) IN
         (IF b = HDLC_FLAG THEN <<HDLC_ESCAPE, HDLC_FLAG_ESCAPED>>
          ELSE IF b = HDLC_ESCAPE THEN <<HDLC_ESCAPE, HDLC_ESCAPE_ESCAPED>>
          ELSE <<b>>) \o Stuff(Tail(p))

\* encode(payload): the flag, the stuffed payload, the flag.
Hdlcify(p) == <<HDLC_FLAG>> \o Stuff(p) \o <<HDLC_FLAG>>

\* The unstuffed body, or a fault on an escape that is followed by neither
\* stuffed form, on a trailing escape, and on an unescaped flag.
RECURSIVE Unstuff(_)
Unstuff(s) ==
    IF s = <<>> THEN [ok |-> TRUE, payload |-> <<>>]
    ELSE IF Head(s) = HDLC_FLAG THEN [ok |-> FALSE, payload |-> <<>>]
    ELSE IF Head(s) = HDLC_ESCAPE
    THEN IF Len(s) < 2 THEN [ok |-> FALSE, payload |-> <<>>]
         ELSE IF s[2] \notin {HDLC_FLAG_ESCAPED, HDLC_ESCAPE_ESCAPED}
         THEN [ok |-> FALSE, payload |-> <<>>]
         ELSE LET r == Unstuff(SubSeq(s, 3, Len(s)))
                  b == IF s[2] = HDLC_FLAG_ESCAPED THEN HDLC_FLAG ELSE HDLC_ESCAPE
              IN  IF r.ok THEN [ok |-> TRUE, payload |-> <<b>> \o r.payload] ELSE r
    ELSE LET r == Unstuff(Tail(s))
         IN  IF r.ok THEN [ok |-> TRUE, payload |-> <<Head(s)>> \o r.payload] ELSE r

\* decode(wireBytes): ok and the payload, or a decode fault (HdlcException)
\* on a buffer that is not a validly stuffed frame between two flags.
Dehdlcify(buf) ==
    IF Len(buf) < 2 \/ buf[1] # HDLC_FLAG \/ buf[Len(buf)] # HDLC_FLAG
    THEN [ok |-> FALSE, payload |-> <<>>]
    ELSE Unstuff(SubSeq(buf, 2, Len(buf) - 1))

----------------------------------------------------------------------------
(* Frame assembly: MoteProbe.run, lines 319-360, and _add_to_input_buf *)

\* ord(byte) ^ m for a one-bit mask m
XorMask(b, m) == IF (b \div m) % 2 = 1 THEN b - m ELSE b + m

\* The assembly state of a probe as a record, so that the per-byte loop can
\* be folded over a read unit.
AsmState == [is_receiving |-> is_receiving, xonxoff_escaping |-> xonxoff_escaping,
             input_buf |-> input_buf, last_rx_byte |-> last_rx_byte,
             published |-> published, handed |-> handed,
             escape_run |-> escape_run, nrx |-> nrx]

\* _add_to_input_buf(byte)
AddToInputBuf(st, byte) ==
    LET r == IF byte = XONXOFF_ESCAPE
             THEN [st EXCEPT !.xonxoff_escaping = TRUE]
             ELSE IF st.xonxoff_escaping
             THEN [st EXCEPT !.input_buf = Append(@, XorMask(byte, XONXOFF_MASK)),
                             !.xonxoff_escaping = FALSE]
             ELSE IF byte # XON /\ byte # XOFF
             THEN [st EXCEPT !.input_buf = Append(@, byte)]
             ELSE st
    IN  [r EXCEPT !.escape_run = IF r.xonxoff_escaping THEN @ + 1 ELSE 0]

PublishFirst(pubs, payload, at) == <<[payload |-> payload, at |-> at]>> \o pubs

PublishTwice(pubs, payload, at) ==
    pubs \o <<[payload |-> payload, at |-> at], [payload |-> payload, at |-> at]>>

\* send_to_parser([ord(c) for c in self.input_buf]): line 359
Publish(pubs, payload, at) == Append(pubs, [payload |-> payload, at |-> at])

EndOfFrameStillReceiving(st, rx_byte, consumer) ==
    LET a == AddToInputBuf(st, rx_byte)
        d == Dehdlcify(a.input_buf)
        at == st.nrx + 1
        h == Append(a.handed, [buf |-> a.input_buf, at |-> at, ok |-> d.ok,
                               payload |-> d.payload, consumer |-> consumer])
    IN  IF d.ok
        THEN [a EXCEPT !.is_receiving = FALSE, !.input_buf = d.payload, !.handed = h,
                       !.published = IF consumer THEN Publish(@, d.payload, at) ELSE @]
        ELSE [a EXCEPT !.handed = h]

EndOfFramePublishesFailed(st, rx_byte, consumer) ==
    LET a == AddToInputBuf([st EXCEPT !.is_receiving = FALSE], rx_byte)
        d == Dehdlcify(a.input_buf)
        at == st.nrx + 1
        h == Append(a.handed, [buf |-> a.input_buf, at |-> at, ok |-> d.ok,
                               payload |-> d.payload, consumer |-> consumer])
    IN  IF d.ok
        THEN [a EXCEPT !.input_buf = d.payload, !.handed = h,
                       !.published = IF consumer THEN Publish(@, d.payload, at) ELSE @]
        ELSE [a EXCEPT !.handed = h,
                       !.published = IF consumer THEN Publish(@, a.input_buf, at) ELSE @]

EndOfFrameKeepsFrame(st, rx_byte, consumer) ==
    LET a == AddToInputBuf([st EXCEPT !.is_receiving = FALSE], rx_byte)
        d == Dehdlcify(a.input_buf)
        at == st.nrx + 1
        h == Append(a.handed, [buf |-> a.input_buf, at |-> at, ok |-> d.ok,
                               payload |-> d.payload, consumer |-> consumer])
    IN  IF d.ok
        THEN [a EXCEPT !.handed = h,
                       !.published = IF consumer THEN Publish(@, d.payload, at) ELSE @]
        ELSE [a EXCEPT !.handed = h]

\* end of frame: lines 341-359.  The buffer is given to dehdlcify; on success
\* input_buf becomes the payload and, if a consumer is assigned, the payload is
\* published; on HdlcException input_buf keeps the frame and nothing else happens.
EndOfFrame(st, rx_byte, consumer) ==
    LET a == AddToInputBuf([st EXCEPT !.is_receiving = FALSE], rx_byte)
        d == Dehdlcify(a.input_buf)
        at == st.nrx + 1
        h == Append(a.handed, [buf |-> a.input_buf, at |-> at, ok |-> d.ok,
                               payload |-> d.payload, consumer |-> consumer])
    IN  IF d.ok
        THEN [a EXCEPT !.input_buf = d.payload, !.handed = h,
                       !.published = IF consumer THEN Publish(@, d.payload, at) ELSE @]
        ELSE [a EXCEPT !.handed = h]

\* The per-byte loop with a flag taken as the first byte of a frame when
\* it follows a flag.
ProcessByteFlagStartsFrame(st, rx_byte, consumer) ==
    LET r == IF ~st.is_receiving /\ st.last_rx_byte = HDLC_FLAG
             THEN AddToInputBuf([st EXCEPT !.is_receiving = TRUE,
                                           !.xonxoff_escaping = FALSE,
                                           !.input_buf = <<HDLC_FLAG>>], rx_byte)
             ELSE IF st.is_receiving /\ rx_byte # HDLC_FLAG
             THEN AddToInputBuf(st, rx_byte)
             ELSE IF st.is_receiving /\ rx_byte = HDLC_FLAG
             THEN EndOfFrame(st, rx_byte, consumer)
             ELSE st
    IN  [r EXCEPT !.last_rx_byte = rx_byte, !.nrx = @ + 1]

ProcessByteKeepsBuffer(st, rx_byte, consumer) ==
    LET r == IF ~st.is_receiving /\ st.last_rx_byte = HDLC_FLAG /\ rx_byte # HDLC_FLAG
             THEN AddToInputBuf([st EXCEPT !.is_receiving = TRUE,
                                           !.xonxoff_escaping = FALSE], rx_byte)
             ELSE IF st.is_receiving /\ rx_byte # HDLC_FLAG
             THEN AddToInputBuf(st, rx_byte)
             ELSE IF st.is_receiving /\ rx_byte = HDLC_FLAG
             THEN EndOfFrame(st, rx_byte, consumer)
             ELSE st
    IN  [r EXCEPT !.last_rx_byte = rx_byte, !.nrx = @ + 1]

\* one iteration of "for rx_byte in rx_bytes": lines 320-360
ProcessByte(st, rx_byte, consumer) ==
    LET r == IF ~st.is_receiving /\ st.last_rx_byte = HDLC_FLAG /\ rx_byte # HDLC_FLAG
             THEN AddToInputBuf([st EXCEPT !.is_receiving = TRUE,
                                           !.xonxoff_escaping = FALSE,
                                           !.input_buf = <<HDLC_FLAG>>], rx_byte)
             ELSE IF st.is_receiving /\ rx_byte # HDLC_FLAG
             THEN AddToInputBuf(st, rx_byte)
             ELSE IF st.is_receiving /\ rx_byte = HDLC_FLAG
             THEN EndOfFrame(st, rx_byte, consumer)
             ELSE st
    IN  [r EXCEPT !.last_rx_byte = rx_byte, !.nrx = @ + 1]

ProcessUnitTimeoutDropsFrame(st, rx_bytes, consumer) ==
    LET after[k \in 0..Len(rx_bytes)] ==
            IF k = 0 THEN st ELSE ProcessByte(after[k - 1], rx_bytes[k], consumer)
    IN  IF rx_bytes = <<>> THEN [st EXCEPT !.is_receiving = FALSE]
        ELSE after[Len(rx_bytes)]

\* The loop over one read unit, every unit starting Idle.
ProcessUnitStartsIdle(st, rx_bytes, consumer) ==
    LET after[k \in 0..Len(rx_bytes)] ==
            IF k = 0 THEN [st EXCEPT !.is_receiving = FALSE]
            ELSE ProcessByte(after[k - 1], rx_bytes[k], consumer)
    IN  after[Len(rx_bytes)]

\* the for loop over one read unit: lines 319-360
RECURSIVE ProcessUnit(_, _, _)
ProcessUnit(st, rx_bytes, consumer) ==
    IF rx_bytes = <<>> THEN st
    ELSE ProcessUnit(ProcessByte(st, Head(rx_bytes), consumer), Tail(rx_bytes), consumer)

\* The state after the for loop over one read unit.
Consume(rx_bytes) ==
    LET r == ProcessUnit(AsmState, rx_bytes, send_to_parser)
    IN  /\ is_receiving' = r.is_receiving
        /\ xonxoff_escaping' = r.xonxoff_escaping
        /\ input_buf' = r.input_buf
        /\ last_rx_byte' = r.last_rx_byte
        /\ published' = r.published
        /\ handed' = r.handed
        /\ escape_run' = r.escape_run
        /\ nrx' = r.nrx
        /\ units_after_close' = IF quit THEN units_after_close + 1 ELSE units_after_close
        /\ worker' = "loop"

----------------------------------------------------------------------------
(* The acquisition worker: MoteProbe.__init__ and MoteProbe.run *)

\* A caller of _send_data: its position, its locals (data, hdlc_data,
\* bytes_written) and, as history, the number of write calls it issued, the
\* argument of the last one and the bytes the transport accepted from it.
IdleSender == [pc |-> "idle", data |-> <<>>, hdlc_data |-> <<>>, bytes_written |-> 0,
               ncalls |-> 0, given |-> <<>>, accepted |-> <<>>]

\* The emulated UART (emulatedMote.bsp_uart) as the probe's calls drive it:
\* read() hands a unit to the probe, which holds it until done_reading()
\* releases it; a read while a unit is held, or a release with none held, is
\* a protocol fault.  done_at is the number of bytes the probe had run through
\* frame assembly when it last called done_reading().
IdleUart == [state |-> "idle", done_at |-> 0]

\* self.serial.read(): line 306
UartRead(u) == [u EXCEPT !.state = IF @ = "idle" THEN "held" ELSE "fault"]

DoneReadingNever(u, at) == u

\* self.serial.done_reading(): lines 362-363
DoneReading(u, at) ==
    [state |-> IF u.state = "held" THEN "idle" ELSE "fault", done_at |-> at]

\* lines 285-297: what self.serial is once the transport has been opened.  The
\* emulated UART belongs to the emulated mote; testbed mode assigns
\* mqtt_serial_queue and leaves self.serial unassigned.
Opened ==
    IF mode \in {MODE_SERIAL, MODE_IOTLAB} THEN "open"
    ELSE IF mode = MODE_EMULATED THEN "borrowed"
    ELSE "unset"

\* lines 368-370: the finally clause of run closes the serial port only
Finally(s) == IF mode = MODE_SERIAL /\ s = "open" THEN "closed" ELSE s

\* The state after MoteProbe.__init__: lines 240-250 and 275 (the thread is
\* started by the constructor, with no consumer assigned).
InitProbe ==
    /\ mode \in MoteModes
    /\ worker = "open"
    /\ quit = FALSE
    /\ send_to_parser = FALSE
    /\ is_receiving = FALSE
    /\ xonxoff_escaping = FALSE      \* created at the first start of frame
                                     \* (line 330) and not read before
    /\ input_buf = <<>>
    /\ last_rx_byte = HDLC_FLAG
    /\ serialbytes_queue = <<>>
    /\ serial = "unset"              \* assigned by run, not by __init__
    /\ peer_closed = FALSE
    /\ uart = IdleUart
    /\ timed_out = FALSE
    /\ overflowed = FALSE
    /\ published = <<>>
    /\ handed = <<>>
    /\ escape_run = 0
    /\ nrx = 0
    /\ units_after_close = 0
    /\ senders = [t \in Senders |-> IdleSender]
    /\ turns = <<>>
    /\ mqtt_out = <<>>

\* No scripted input: the transport delivers any bytes.
NoScript == [first |-> <<>>, second |-> <<>>, total |-> 0, rest |-> <<>>]

\* A server on real hardware: no simulation engine.
NoSimulation ==
    /\ simulator_mode = 0
    /\ sim_paused = FALSE
    /\ sim_time = 0
    /\ mote_on = <<>>
    /\ timeline = <<>>
    /\ boot_log = <<>>

\* No command served, no discovery running.
NoCommand == [op |-> "none", arg |-> "", result |-> "none", fault |-> "none",
              triggered |-> <<>>, value |-> <<>>, snapshot |-> 0,
              failing |-> FALSE]
IdleScan == [pc |-> "idle"]
IdleFinder == [pc |-> "idle"]

NoRegistry ==
    /\ discovery = [kind |-> "none"]
    /\ mote_probes = <<>>
    /\ mote_addr = <<>>
    /\ dagroot = <<>>
    /\ last_rpc = NoCommand
    /\ root_mote = 0

NoFinding == scan = IdleScan /\ finder = IdleFinder

Init == InitProbe /\ wire = NoScript /\ NoSimulation /\ NoRegistry /\ NoFinding

asm_vars == <<is_receiving, xonxoff_escaping, input_buf, last_rx_byte, published,
              handed, escape_run, nrx, units_after_close>>

\* lines 285-297: the transport is opened
OpenTransport ==
    /\ worker = "open"
    /\ worker' = "loop"
    /\ serial' = Opened
    /\ UNCHANGED <<mode, quit, send_to_parser, serialbytes_queue, overflowed>>
    /\ UNCHANGED <<peer_closed, uart, timed_out>>
    /\ UNCHANGED asm_vars

\* lines 286, 291-292, 364-370: serial.Serial(...) raises, leaving self.serial
\* unassigned, or connect(...) raises on the socket just created
OpenFail ==
    /\ worker = "open"
    /\ mode \in {MODE_SERIAL, MODE_IOTLAB}
    /\ worker' = "exited"
    /\ serial' = Finally(IF mode = MODE_IOTLAB THEN "open" ELSE "unset")
    /\ UNCHANGED <<mode, quit, send_to_parser, serialbytes_queue, overflowed>>
    /\ UNCHANGED <<peer_closed, uart, timed_out>>
    /\ UNCHANGED asm_vars

\* The head of the loop, going on to read whatever quit is.
CheckQuitReadsOn ==
    /\ worker = "loop"
    /\ worker' = "read"
    /\ UNCHANGED <<mode, quit, send_to_parser, serialbytes_queue, overflowed>>
    /\ UNCHANGED <<serial, peer_closed, uart, timed_out>>
    /\ UNCHANGED asm_vars

\* line 299: while not self.quit; on leaving the loop, the finally clause
CheckQuit ==
    /\ worker = "loop"
    /\ worker' = IF quit THEN "exited" ELSE "read"
    /\ serial' = IF quit THEN Finally(serial) ELSE serial
    /\ UNCHANGED <<mode, quit, send_to_parser, serialbytes_queue, overflowed>>
    /\ UNCHANGED <<peer_closed, uart, timed_out>>
    /\ UNCHANGED asm_vars

\* lines 301-304: serial.read(1) returns one byte, or none after the timeout
SerialRead(rx_bytes) ==
    /\ worker = "read"
    /\ mode = MODE_SERIAL
    /\ Len(rx_bytes) <= 1
    /\ Consume(rx_bytes)
    /\ timed_out' = (rx_bytes = <<>>)
    /\ UNCHANGED <<mode, quit, send_to_parser, serialbytes_queue, overflowed>>
    /\ UNCHANGED <<serial, peer_closed, uart>>

\* lines 305-306 and 362-363: the emulated UART's read returns a unit, the
\* unit is consumed and the emulator is told so
EmulatedRead(rx_bytes) ==
    /\ worker = "read"
    /\ mode = MODE_EMULATED
    /\ Consume(rx_bytes)
    /\ uart' = DoneReading(UartRead(uart), nrx')
    /\ UNCHANGED <<mode, quit, send_to_parser, serialbytes_queue, overflowed>>
    /\ UNCHANGED <<serial, peer_closed, timed_out>>

\* lines 307-308: recv(1024) returns: at least one byte while the connection
\* is up, and the empty string once the peer has closed it, from then on
SocketRecv(rx_bytes) ==
    /\ worker = "read"
    /\ mode = MODE_IOTLAB
    /\ peer_closed => rx_bytes = <<>>
    /\ peer_closed' = (rx_bytes = <<>>)
    /\ Consume(rx_bytes)
    /\ UNCHANGED <<mode, quit, send_to_parser, serialbytes_queue, overflowed>>
    /\ UNCHANGED <<serial, uart, timed_out>>

\* lines 309-317: the queue's get() returns the oldest message; chr(i) raises
\* on a value that is no byte, which ends the loop (lines 314-317)
TestbedGet ==
    /\ worker = "read"
    /\ mode = MODE_TESTBED
    /\ serialbytes_queue # <<>>
    /\ IF \A i \in DOMAIN Head(serialbytes_queue) :
             Head(serialbytes_queue)[i] \in 0..255
       THEN Consume(Head(serialbytes_queue))
       ELSE worker' = "exited" /\ UNCHANGED asm_vars
    /\ serialbytes_queue' = Tail(serialbytes_queue)
    /\ UNCHANGED <<mode, quit, send_to_parser, overflowed>>
    /\ UNCHANGED <<serial, peer_closed, uart, timed_out>>

\* lines 314-317 and 368-370: the read call raises
ReadError ==
    /\ worker = "read"
    /\ mode \in {MODE_SERIAL, MODE_IOTLAB}
    /\ worker' = "exited"
    /\ serial' = Finally(serial)
    /\ UNCHANGED <<mode, quit, send_to_parser, serialbytes_queue, overflowed>>
    /\ UNCHANGED <<peer_closed, uart, timed_out>>
    /\ UNCHANGED asm_vars

RECURSIVE QueuedBytes(_)
QueuedBytes(q) == IF q = <<>> THEN 0 ELSE Len(Head(q)) + QueuedBytes(Tail(q))

QueuePutDropsOldest(q, item) ==
    IF Len(q) < QUEUE_MAXSIZE THEN Append(q, item) ELSE Append(Tail(q), item)

\* Queue.put(item, block=False) on a queue of maxsize 10: Full when it holds 10
QueuePut(q, item) == IF Len(q) < QUEUE_MAXSIZE THEN Append(q, item) ELSE q

\* _on_mqtt_message, lines 432-442
OnMqttMessage(serial_bytes) ==
    /\ mode = MODE_TESTBED
    /\ serialbytes_queue' = QueuePut(serialbytes_queue, serial_bytes)
    /\ overflowed' = (overflowed \/ Len(serialbytes_queue) >= QUEUE_MAXSIZE)
    /\ UNCHANGED <<mode, worker, quit, send_to_parser>>
    /\ UNCHANGED <<serial, peer_closed, uart, timed_out>>
    /\ UNCHANGED asm_vars

\* the connector assigns send_to_parser (line 250: "to be assigned"; the
\* connectors are built after all probes, main.py line 200)
AttachConsumer ==
    /\ ~send_to_parser
    /\ send_to_parser' = TRUE
    /\ UNCHANGED <<mode, worker, quit, serialbytes_queue, overflowed>>
    /\ UNCHANGED <<serial, peer_closed, uart, timed_out>>
    /\ UNCHANGED asm_vars

\* close(), lines 384-385
Close ==
    /\ ~quit
    /\ quit' = TRUE
    /\ UNCHANGED <<mode, worker, send_to_parser, serialbytes_queue, overflowed>>
    /\ UNCHANGED <<serial, peer_closed, uart, timed_out>>
    /\ UNCHANGED asm_vars

\* The read units the transport may still deliver, and the messages the
\* broker may still deliver, within the bounds of the model.
Deliverable == {u \in Units : nrx + Len(u) <= MaxStream}
Arrivable == IF Len(serialbytes_queue) < MaxQueued
             THEN {m \in Messages :
                      nrx + QueuedBytes(serialbytes_queue) + Len(m) <= MaxStream}
             ELSE {}

\* The other parts of the state, which these steps leave alone.
Elsewhere == UNCHANGED server_vars /\ UNCHANGED registry_vars /\ UNCHANGED finding_vars
SendQuiet == UNCHANGED <<senders, turns, mqtt_out>> /\ Elsewhere
Quiet == UNCHANGED <<wire, senders, turns, mqtt_out>> /\ Elsewhere

Next ==
    \/ OpenTransport /\ Quiet
    \/ OpenFail /\ Quiet
    \/ CheckQuit /\ Quiet
    \/ \E u \in Deliverable : SerialRead(u) /\ Quiet
    \/ \E u \in Deliverable : EmulatedRead(u) /\ Quiet
    \/ \E u \in Deliverable : SocketRecv(u) /\ Quiet
    \/ TestbedGet /\ Quiet
    \/ ReadError /\ Quiet
    \/ \E m \in Arrivable : OnMqttMessage(m) /\ Quiet
    \/ AttachConsumer /\ Quiet
    \/ Close /\ Quiet

Spec == Init /\ [][Next]_vars

----------------------------------------------------------------------------
(* Scripted input: a valid frame, a corrupted frame, a valid frame *)

ResyncPayloads == {<<65>>, <<HDLC_FLAG>>, <<HDLC_ESCAPE, 66>>}

\* Frames whose stuffing is violated: an escape followed by the closing flag,
\* and an escape followed by a byte that is no stuffed form.
CorruptedFrames == {<<HDLC_FLAG, HDLC_ESCAPE, HDLC_FLAG>>,
                    <<HDLC_FLAG, 65, HDLC_ESCAPE, 65, HDLC_FLAG>>}

ResyncScripts ==
    {[first |-> p, second |-> q,
      total |-> Len(Hdlcify(p) \o c \o Hdlcify(q)),
      rest |-> Hdlcify(p) \o c \o Hdlcify(q)] :
        p \in ResyncPayloads, q \in ResyncPayloads, c \in CorruptedFrames}

InitResync ==
    InitProbe /\ wire \in ResyncScripts /\ NoSimulation /\ NoRegistry /\ NoFinding

Min(a, b) == IF a < b THEN a ELSE b

\* The next read unit of the script, and the script after it.
ScriptedUnits == {SubSeq(wire.rest, 1, k) : k \in 0..Min(MaxUnit, Len(wire.rest))}
Taken(u) ==
    wire' = [wire EXCEPT !.rest = SubSeq(wire.rest, Len(u) + 1, Len(wire.rest))]
ScriptedMessages == IF Len(serialbytes_queue) < MaxQueued THEN ScriptedUnits ELSE {}

NextResync ==
    \/ OpenTransport /\ Quiet
    \/ CheckQuit /\ Quiet
    \/ \E u \in ScriptedUnits : SerialRead(u) /\ Taken(u) /\ SendQuiet
    \/ \E u \in ScriptedUnits : EmulatedRead(u) /\ Taken(u) /\ SendQuiet
    \/ \E u \in ScriptedUnits : SocketRecv(u) /\ Taken(u) /\ SendQuiet
    \/ TestbedGet /\ Quiet
    \/ \E m \in ScriptedMessages : OnMqttMessage(m) /\ Taken(m) /\ SendQuiet
    \/ AttachConsumer /\ Quiet
    \/ Close /\ Quiet

SpecResync == InitResync /\ [][NextResync]_vars

----------------------------------------------------------------------------
(* A given byte stream, split into read units in every way *)

\* The bytes of the streams: the flag, the flow-control escape, a data byte.
ChunkBytes == {HDLC_FLAG, XONXOFF_ESCAPE, 65}

ChunkScripts ==
    {[first |-> <<>>, second |-> <<>>, total |-> Len(s), rest |-> s, stream |-> s] :
        s \in SeqsUpTo(ChunkBytes, MaxStream)}

InitChunks ==
    InitProbe /\ wire \in ChunkScripts /\ NoSimulation /\ NoRegistry /\ NoFinding

SpecChunks == InitChunks /\ [][NextResync]_vars

----------------------------------------------------------------------------
(* Testbed mode with inbound messages that are not lists of bytes *)

\* What json.loads(message.payload) gives: an object with a serialbytes list,
\* of bytes or with a value that is no byte, or one without that field.
InboundPayloads ==
    {[parsed |-> TRUE, serialbytes |-> m] : m \in Messages \cup {<<300>>, <<65, 300>>}}
        \cup {[parsed |-> FALSE, serialbytes |-> <<>>]}

PayloadArrivable ==
    IF Len(serialbytes_queue) < MaxQueued
    THEN {p \in InboundPayloads :
             nrx + QueuedBytes(serialbytes_queue) + Len(p.serialbytes) <= MaxStream}
    ELSE {}

\* _on_mqtt_message, lines 432-442, from the payload: the subscript raises on
\* a payload without serialbytes, which is logged and dropped.
OnMqttPayload(payload) ==
    IF payload.parsed
    THEN OnMqttMessage(payload.serialbytes)
    ELSE /\ mode = MODE_TESTBED
         /\ UNCHANGED <<mode, worker, quit, send_to_parser, serialbytes_queue>>
         /\ UNCHANGED <<overflowed, serial, peer_closed, uart, timed_out>>
         /\ UNCHANGED asm_vars

InitMalformed == Init /\ mode = MODE_TESTBED

NextMalformed ==
    \/ OpenTransport /\ Quiet
    \/ CheckQuit /\ Quiet
    \/ TestbedGet /\ Quiet
    \/ \E p \in PayloadArrivable : OnMqttPayload(p) /\ Quiet
    \/ AttachConsumer /\ Quiet

SpecMalformed == InitMalformed /\ [][NextMalformed]_vars

----------------------------------------------------------------------------
(* Testbed mode with a broker that delivers faster than the worker consumes *)

\* The serialbytes lists of the burst: an empty list and a lone flag byte,
\* which leave frame assembly Idle.
BurstMessages == {<<>>, <<HDLC_FLAG>>}

BurstArrivable ==
    {m \in BurstMessages : nrx + QueuedBytes(serialbytes_queue) + Len(m) <= MaxStream}

InitBurst == Init /\ mode = MODE_TESTBED

NextBurst ==
    \/ OpenTransport /\ Quiet
    \/ CheckQuit /\ Quiet
    \/ TestbedGet /\ Quiet
    \/ \E m \in BurstArrivable : OnMqttMessage(m) /\ Quiet
    \/ Close /\ Quiet

SpecBurst == InitBurst /\ [][NextBurst]_vars

----------------------------------------------------------------------------
(* The send path: MoteProbe._send_data, called on the caller's thread *)

FramedRaw(data) == data

\* line 406: hdlc_data = self.hdlc.hdlcify(data)
Framed(data) == Hdlcify(data)

\* lines 399-422: from the call to the first write
SendData(t, data) ==
    /\ senders[t].pc = "idle"
    /\ mode \in {MODE_SERIAL, MODE_EMULATED} => worker \in {"loop", "read"}
    /\ IF mode = MODE_IOTLAB
       THEN /\ senders' = [senders EXCEPT ![t] = [@ EXCEPT !.pc = "done", !.data = data]]
            /\ UNCHANGED <<turns, mqtt_out>>
       ELSE IF mode = MODE_TESTBED
       THEN /\ senders' = [senders EXCEPT ![t] = [@ EXCEPT !.pc = "done", !.data = data,
                                                           !.hdlc_data = Framed(data)]]
            /\ mqtt_out' = Append(mqtt_out, [serialbytes |-> Framed(data), by |-> t])
            /\ UNCHANGED turns
       ELSE /\ senders' = [senders EXCEPT ![t] = [@ EXCEPT !.pc = "write", !.data = data,
                                                           !.hdlc_data = Framed(data),
                                                           !.bytes_written = 0]]
            /\ UNCHANGED <<turns, mqtt_out>>
    /\ UNCHANGED probe_vars

\* The callers in the order their bytes reached the transport.
TurnOf(ts, t, n) == IF n = 0 \/ (ts # <<>> /\ ts[Len(ts)] = t) THEN ts ELSE Append(ts, t)

\* lines 423-424: one turn of the write loop; the transport accepts the first
\* n bytes of what it is given and returns n
Write(t, n) ==
    /\ senders[t].pc = "write"
    /\ senders[t].bytes_written # Len(senders[t].hdlc_data)
    /\ n \in 0..Len(senders[t].hdlc_data)
    /\ LET given == senders[t].hdlc_data
           written == senders[t].bytes_written + n
       IN  /\ turns' = TurnOf(turns, t, n)
           /\ senders' = [senders EXCEPT ![t] =
                             [@ EXCEPT !.bytes_written = written,
                                       !.ncalls = @ + 1,
                                       !.given = given,
                                       !.accepted = @ \o SubSeq(given, 1, n),
                                       !.pc = IF written = Len(given) THEN "done" ELSE "write"]]
    /\ UNCHANGED mqtt_out
    /\ UNCHANGED probe_vars

\* What a write call may return: the transport accepts one byte (a partial
\* write) or all it is given.
AcceptCounts(t) == {1, Len(senders[t].hdlc_data)}

NextSend ==
    \/ OpenTransport /\ Quiet
    \/ \E t \in Senders, data \in Payloads : SendData(t, data) /\ Elsewhere
    \/ \E t \in Senders : \E n \in AcceptCounts(t) :
          senders[t].ncalls < MaxWrites /\ Write(t, n) /\ Elsewhere

SpecSend == Init /\ [][NextSend]_vars

----------------------------------------------------------------------------
(* The orchestrator's boot command: OpenVisualizerServer.boot_motes, and the *)
(* simulation engine it drives                                              *)

MaxMotes == 2       \* emulated motes
MaxCmds == 2        \* boot_motes commands in one behaviour
MaxTime == 1        \* the simulation clock

\* The address lists given to boot_motes: every mote, known motes, an address
\* of no mote, text that is no number, "all" among other addresses, a mote
\* named twice, and a known mote followed by text that is no number.
AddressLists == {<<"all">>, <<"1">>, <<"2">>, <<"1", "2">>, <<"9">>, <<"1", "9">>,
                 <<"x">>, <<"all", "1">>, <<>>, <<"1", "1">>, <<"1", "x">>}

\* int(address), line 361: ValueError on text that is no number
IntOf(a) ==
    CASE a = "1" -> [ok |-> TRUE, value |-> 1]
      [] a = "2" -> [ok |-> TRUE, value |-> 2]
      [] a = "9" -> [ok |-> TRUE, value |-> 9]
      [] OTHER -> [ok |-> FALSE, value |-> 0]

\* mh.get_id() of the mote handler of a rank
MoteId(rank) == rank + 1

\* The effects of a boot_motes command as it runs: the engine's pause state
\* and timeline, and, as history, its calls of pause and resume, the events
\* it scheduled and the fault it raised.
BootStart == [paused |-> sim_paused, timeline |-> timeline, pauses |-> 0,
              resumes |-> 0, scheduled |-> <<>>, fault |-> "none"]

\* simengine.pause() and simengine.resume()
SimPause(st) == [st EXCEPT !.paused = TRUE, !.pauses = @ + 1]
SimResume(st) == [st EXCEPT !.paused = FALSE, !.resumes = @ + 1]

\* simengine.timeline.schedule_event(now, mh.get_id(), mh.hw_supply.switch_on, ...)
ScheduleEvent(st, at, id) ==
    [st EXCEPT !.timeline = Append(@, [at |-> at, mote |-> id]),
               !.scheduled = Append(@, [at |-> at, mote |-> id])]

\* raise Fault(...)
Raise(st, fault) == [st EXCEPT !.fault = fault]

BootAllFirstOnly(st, now, rank) ==
    IF ~mote_on[rank + 1] THEN ScheduleEvent(st, now, MoteId(rank))
    ELSE Raise(st, "already booted")

\* lines 351-357: boot_motes(['all']), from a rank on
RECURSIVE BootAll(_, _, _)
BootAll(st, now, rank) ==
    IF rank >= simulator_mode THEN st
    ELSE IF ~mote_on[rank + 1]
    THEN BootAll(ScheduleEvent(st, now, MoteId(rank)), now, rank + 1)
    ELSE Raise(st, "already booted")

\* lines 365-372: the motes whose id is the address, from a rank on
RECURSIVE BootAddress(_, _, _, _)
BootAddress(st, now, address, rank) ==
    IF rank >= simulator_mode THEN st
    ELSE IF address = MoteId(rank)
    THEN IF ~mote_on[rank + 1]
         THEN BootAddress(ScheduleEvent(st, now, MoteId(rank)), now, address, rank + 1)
         ELSE Raise(st, "already booted")
    ELSE BootAddress(st, now, address, rank + 1)

\* lines 359-372: for address in addresses
RECURSIVE BootAddresses(_, _, _)
BootAddresses(st, now, addresses) ==
    IF addresses = <<>> THEN st
    ELSE LET a == IntOf(Head(addresses))
         IN  IF ~a.ok THEN Raise(st, "invalid address")
             ELSE LET r == BootAddress(st, now, a.value, 0)
                  IN  IF r.fault # "none" THEN r
                      ELSE BootAddresses(r, now, Tail(addresses))

BootMotesRunAlwaysSimulated(addresses) ==
    LET p == SimPause(BootStart)
        b == IF simulator_mode = 0 THEN Raise(p, "not supported")
             ELSE IF Len(addresses) = 1 /\ addresses[1] = "all"
             THEN BootAll(p, sim_time, 0)
             ELSE BootAddresses(p, sim_time, addresses)
    IN  IF b.fault = "none" THEN SimResume(b) ELSE b

\* boot_motes(addresses), lines 343-377: resume is called on the path that
\* returns True only
BootMotesRun(addresses) ==
    IF simulator_mode > 0
    THEN LET p == SimPause(BootStart)
             now == sim_time
             b == IF Len(addresses) = 1 /\ addresses[1] = "all"
                  THEN BootAll(p, now, 0)
                  ELSE BootAddresses(p, now, addresses)
         IN  IF b.fault = "none" THEN SimResume(b) ELSE b
    ELSE Raise(BootStart, "not supported")

\* A boot_motes command, from the call to its return or fault.  The engine
\* executes no event while it is paused, so the command is one step.
BootMotes(addresses) ==
    LET r == BootMotesRun(addresses)
    IN  /\ sim_paused' = r.paused
        /\ timeline' = r.timeline
        /\ boot_log' = Append(boot_log,
                           [addresses |-> addresses, fault |-> r.fault,
                            returned |-> IF r.fault = "none" THEN "true" ELSE "fault",
                            pauses |-> r.pauses, resumes |-> r.resumes,
                            scheduled |-> r.scheduled, now |-> sim_time,
                            all_off |-> \A k \in 1..simulator_mode : ~mote_on[k]])
        /\ UNCHANGED <<simulator_mode, sim_time, mote_on>>
        /\ UNCHANGED probe_vars
        /\ UNCHANGED send_vars
        /\ UNCHANGED registry_vars
        /\ UNCHANGED finding_vars

\* The engine, running, executes the next event of the timeline: the power
\* supply of the mote is switched on.
ExecuteEvent ==
    /\ simulator_mode > 0
    /\ ~sim_paused
    /\ timeline # <<>>
    /\ LET e == Head(timeline)
       IN  /\ mote_on' = [mote_on EXCEPT ![e.mote] = TRUE]
           /\ sim_time' = IF e.at > sim_time THEN e.at ELSE sim_time
    /\ timeline' = Tail(timeline)
    /\ UNCHANGED <<simulator_mode, sim_paused, boot_log>>
    /\ UNCHANGED probe_vars
    /\ UNCHANGED send_vars
    /\ UNCHANGED registry_vars
    /\ UNCHANGED finding_vars

\* The engine, running, advances the clock.
AdvanceTime ==
    /\ simulator_mode > 0
    /\ ~sim_paused
    /\ sim_time' = sim_time + 1
    /\ UNCHANGED <<simulator_mode, sim_paused, mote_on, timeline, boot_log>>
    /\ UNCHANGED probe_vars
    /\ UNCHANGED send_vars
    /\ UNCHANGED registry_vars
    /\ UNCHANGED finding_vars

\* The server once built, lines 154-191: in simulator mode simulator_mode
\* emulated motes, all unpowered, each with an emulated probe; on real
\* hardware serial probes and no engine.
InitBoot ==
    /\ InitProbe
    /\ wire = NoScript
    /\ simulator_mode \in 0..MaxMotes
    /\ mode = IF simulator_mode > 0 THEN MODE_EMULATED ELSE MODE_SERIAL
    /\ sim_paused = FALSE
    /\ sim_time = 0
    /\ mote_on = [k \in 1..simulator_mode |-> FALSE]
    /\ timeline = <<>>
    /\ boot_log = <<>>
    /\ NoRegistry
    /\ NoFinding

NextBoot ==
    \/ \E addresses \in AddressLists : Len(boot_log) < MaxCmds /\ BootMotes(addresses)
    \/ ExecuteEvent
    \/ sim_time < MaxTime /\ AdvanceTime

SpecBoot == InitBoot /\ [][NextBoot]_vars

----------------------------------------------------------------------------
(* The orchestrator's registry: OpenVisualizerServer.__init__, and the      *)
(* commands set_root, get_dagroot, get_mote_state and get_mote_dict         *)
(***************************************************************************)

Hosts == {"m3-1", "m3-2"}
Euis == {"00-12-4b-01", "00-12-4b-02"}
Addresses == {<<0, 1>>, <<171, 205>>}
UnknownAddress == <<>>

RangeOf(f) == {f[i] : i \in DOMAIN f}
ListsOf(S, n) == UNION {[1..k -> S] : k \in 1..n}
Orderings(S) == {s \in [1..Cardinality(S) -> S] : RangeOf(s) = S}

\* 'emulated{0}'.format(id), 'IoT-LAB{0}'.format(host) and
\* 'opentestbed_{0}'.format(eui64), on the identifiers of the model.
FormatEmulated(id) ==
    CASE id = 1 -> "emulated1" [] id = 2 -> "emulated2"
      [] id = 3 -> "emulated3" [] id = 4 -> "emulated4"

FormatIotlab(host) ==
    CASE host = "m3-1" -> "IoT-LABm3-1" [] host = "m3-2" -> "IoT-LABm3-2"

FormatTestbed(eui) ==
    CASE eui = "00-12-4b-01" -> "opentestbed_00-12-4b-01"
      [] eui = "00-12-4b-02" -> "opentestbed_00-12-4b-02"

\* ''.join(['%02x' % b for b in addr]), on the addresses of the model.
HexOf(addr) ==
    CASE addr = <<0, 1>> -> "0001" [] addr = <<171, 205>> -> "abcd"

\* What the server is started with: a number of emulated motes, the fields of
\* the comma-separated IoT-LAB host list, the set the testbed finder returned,
\* or none of these (motes on serial ports).
Discoveries ==
    {[kind |-> "simulated", count |-> n] : n \in 1..MaxMotes}
        \cup {[kind |-> "iotlab", hosts |-> h] : h \in ListsOf(Hosts, MaxMotes)}
        \cup {[kind |-> "testbed", motelist |-> e] : e \in SUBSET Euis}
        \cup {[kind |-> "serial"]}

\* The port names of the probes the constructor creates, in registry order.
\* A set is iterated in an order the program does not choose.  With motes on
\* serial ports the constructor calls find_serial_ports without its first
\* argument: the call raises and no registry is built.
MoteProbes(cfg) ==
    CASE cfg.kind = "simulated" ->
           {[k \in 1..cfg.count |-> FormatEmulated(MoteId(k - 1))]}
      [] cfg.kind = "iotlab" ->
           {[k \in DOMAIN cfg.hosts |-> FormatIotlab(cfg.hosts[k])]}
      [] cfg.kind = "testbed" ->
           {[k \in DOMAIN o |-> FormatTestbed(o[k])] : o \in Orderings(cfg.motelist)}
      [] cfg.kind = "serial" -> {<<>>}

Serving == discovery.kind \in {"simulated", "iotlab", "testbed"}

\* get_mote_dict: address -> port name for a mote whose address is known,
\* port name -> None for the others; a later entry replaces an earlier one
\* with the same key.
GetMoteDict ==
    LET upto[k \in 0..Len(mote_probes)] ==
          IF k = 0 THEN <<>>
          ELSE IF mote_addr[k] # UnknownAddress
               THEN (HexOf(mote_addr[k]) :> mote_probes[k]) @@ upto[k - 1]
               ELSE (mote_probes[k] :> "None") @@ upto[k - 1]
    IN upto[Len(mote_probes)]

Served(op, arg) == [op |-> op, arg |-> arg, result |-> "none", fault |-> "none",
                    triggered |-> <<>>, value |-> <<>>, snapshot |-> 0,
                    failing |-> FALSE]

FirstOf(S) == CHOOSE m \in S : \A n \in S : m <= n

\* set_root, with an unknown argument taken for the first mote of the registry.
SetRootGuessesMote(port_or_address, failing) ==
    /\ Serving
    /\ mote_probes # <<>>
    /\ ~failing
    /\ dagroot' = mote_addr[1]
    /\ root_mote' = 1
    /\ last_rpc' = [Served("set_root", port_or_address) EXCEPT
                        !.result = "true", !.triggered = <<1>>]
    /\ UNCHANGED <<discovery, mote_probes, mote_addr>>

\* set_root, recording the root before the transition is triggered.
SetRootRecordsBeforeTrigger(port_or_address, failing) ==
    LET mote_dict == GetMoteDict
        known == \/ port_or_address \in DOMAIN mote_dict
                 \/ port_or_address \in RangeOf(mote_dict)
        port == IF port_or_address \in DOMAIN mote_dict
                THEN mote_dict[port_or_address] ELSE port_or_address
        matching == {m \in DOMAIN mote_probes : mote_probes[m] = port}
        rpc == [Served("set_root", port_or_address) EXCEPT !.failing = failing]
    IN
    /\ Serving
    /\ IF ~known \/ matching = {}
       THEN /\ last_rpc' = [rpc EXCEPT !.result = "fault",
                                       !.fault = "Could not set as root"]
            /\ UNCHANGED <<dagroot, root_mote>>
       ELSE /\ dagroot' = mote_addr[FirstOf(matching)]
            /\ root_mote' = IF failing THEN root_mote ELSE FirstOf(matching)
            /\ last_rpc' = [rpc EXCEPT !.result = IF failing THEN "fault" ELSE "true",
                                       !.fault = IF failing THEN "Could not set as root"
                                                 ELSE "none",
                                       !.triggered = <<FirstOf(matching)>>]
    /\ UNCHANGED <<discovery, mote_probes, mote_addr>>

\* set_root(port_or_address); failing says whether trigger_action raises
\* ValueError on the mote it is called on.
SetRoot(port_or_address, failing) ==
    LET mote_dict == GetMoteDict
        known == \/ port_or_address \in DOMAIN mote_dict
                 \/ port_or_address \in RangeOf(mote_dict)
        port == IF port_or_address \in DOMAIN mote_dict
                THEN mote_dict[port_or_address] ELSE port_or_address
        matching == {m \in DOMAIN mote_probes : mote_probes[m] = port}
        rpc == [Served("set_root", port_or_address) EXCEPT !.failing = failing]
    IN
    /\ Serving
    /\ IF ~known
       THEN /\ last_rpc' = [rpc EXCEPT !.result = "fault",
                                       !.fault = "Unknown port or address"]
            /\ UNCHANGED <<dagroot, root_mote>>
       ELSE IF matching = {}
       THEN /\ last_rpc' = [rpc EXCEPT !.result = "fault",
                                       !.fault = "Could not set as root"]
            /\ UNCHANGED <<dagroot, root_mote>>
       ELSE IF failing
       THEN /\ last_rpc' = [rpc EXCEPT !.result = "fault",
                                       !.fault = "Could not set as root",
                                       !.triggered = <<FirstOf(matching)>>]
            /\ UNCHANGED <<dagroot, root_mote>>
       ELSE /\ dagroot' = mote_addr[FirstOf(matching)]
            /\ root_mote' = FirstOf(matching)
            /\ last_rpc' = [rpc EXCEPT !.result = "true",
                                       !.triggered = <<FirstOf(matching)>>]
    /\ UNCHANGED <<discovery, mote_probes, mote_addr>>

GetDagroot ==
    /\ Serving
    /\ last_rpc' = [Served("get_dagroot", "") EXCEPT !.result = "value",
                                                     !.value = dagroot]
    /\ UNCHANGED <<discovery, mote_probes, mote_addr, dagroot, root_mote>>

\* get_mote_state, returning the first mote that has an address at all.
GetMoteStateFirstAddressed(mote_id) ==
    LET addressed == {m \in DOMAIN mote_probes : mote_addr[m] # UnknownAddress}
    IN
    /\ Serving
    /\ addressed # {}
    /\ last_rpc' = [Served("get_mote_state", mote_id) EXCEPT
                        !.result = "value", !.snapshot = FirstOf(addressed)]
    /\ UNCHANGED <<discovery, mote_probes, mote_addr, dagroot, root_mote>>

GetMoteState(mote_id) ==
    LET matching == {m \in DOMAIN mote_probes :
                        /\ mote_addr[m] # UnknownAddress
                        /\ HexOf(mote_addr[m]) = mote_id}
        rpc == Served("get_mote_state", mote_id)
    IN
    /\ Serving
    /\ last_rpc' = IF matching # {}
                   THEN [rpc EXCEPT !.result = "value",
                                    !.snapshot = FirstOf(matching)]
                   ELSE [rpc EXCEPT !.result = "fault",
                                    !.fault = "Unknown mote ID"]
    /\ UNCHANGED <<discovery, mote_probes, mote_addr, dagroot, root_mote>>

\* A mote's id manager learns the mote's 16-bit address from a status report.
ReportAddress(m, addr) ==
    /\ Serving
    /\ mote_addr[m] = UnknownAddress
    /\ mote_addr' = [mote_addr EXCEPT ![m] = addr]
    /\ UNCHANGED <<discovery, mote_probes, dagroot, last_rpc, root_mote>>

\* What a client may pass: the port names in use, addresses in the form
\* get_mote_dict gives them, None, and names bound to no mote.
RootArguments ==
    RangeOf(mote_probes) \cup {HexOf(a) : a \in Addresses} \cup {"None", "COM7"}

MoteIds == {HexOf(a) : a \in Addresses} \cup {"ffff"}

InitRegistry ==
    /\ InitProbe /\ wire = NoScript /\ NoSimulation /\ NoFinding
    /\ discovery \in Discoveries
    /\ mote_probes \in MoteProbes(discovery)
    /\ mote_addr = [m \in DOMAIN mote_probes |-> UnknownAddress]
    /\ dagroot = UnknownAddress
    /\ last_rpc = NoCommand
    /\ root_mote = 0

RegistryQuiet ==
    /\ UNCHANGED probe_vars /\ UNCHANGED send_vars
    /\ UNCHANGED server_vars /\ UNCHANGED finding_vars

NextRegistry ==
    \/ \E x \in RootArguments, failing \in BOOLEAN : SetRoot(x, failing) /\ RegistryQuiet
    \/ GetDagroot /\ RegistryQuiet
    \/ \E a \in MoteIds : GetMoteState(a) /\ RegistryQuiet
    \/ \E m \in DOMAIN mote_probes, addr \in Addresses :
          ReportAddress(m, addr) /\ RegistryQuiet

SpecRegistry == InitRegistry /\ [][NextRegistry]_vars

(***************************************************************************)
(* The commands of one server together: set_root, get_dagroot,              *)
(* get_mote_state, get_mote_dict and boot_motes                             *)
(***************************************************************************)

\* get_mote_dict as a command: the dictionary is computed and returned.
GetMoteDictCall ==
    /\ Serving
    /\ last_rpc' = [Served("get_mote_dict", "") EXCEPT !.result = "value"]
    /\ UNCHANGED <<discovery, mote_probes, mote_addr, dagroot, root_mote>>

\* The address lists given to boot_motes here: every mote, and text that is
\* no number.
RootBootLists == {<<"all">>, <<"x">>}

\* The server once built: the registry of InitRegistry, and an engine in
\* simulator mode only.
InitRoot ==
    /\ InitProbe /\ wire = NoScript /\ NoFinding
    /\ discovery \in Discoveries
    /\ mote_probes \in MoteProbes(discovery)
    /\ mote_addr = [m \in DOMAIN mote_probes |-> UnknownAddress]
    /\ dagroot = UnknownAddress
    /\ last_rpc = NoCommand
    /\ root_mote = 0
    /\ simulator_mode = IF discovery.kind = "simulated" THEN discovery.count ELSE 0
    /\ mode = CASE discovery.kind = "simulated" -> MODE_EMULATED
                [] discovery.kind = "iotlab" -> MODE_IOTLAB
                [] discovery.kind = "testbed" -> MODE_TESTBED
                [] OTHER -> MODE_SERIAL
    /\ sim_paused = FALSE
    /\ sim_time = 0
    /\ mote_on = [k \in 1..simulator_mode |-> FALSE]
    /\ timeline = <<>>
    /\ boot_log = <<>>

\* One boot_motes command in a behaviour, among any number of the others.
NextRoot ==
    \/ \E x \in RootArguments, failing \in BOOLEAN : SetRoot(x, failing) /\ RegistryQuiet
    \/ GetDagroot /\ RegistryQuiet
    \/ \E a \in MoteIds : GetMoteState(a) /\ RegistryQuiet
    \/ GetMoteDictCall /\ RegistryQuiet
    \/ \E m \in DOMAIN mote_probes, addr \in Addresses :
          ReportAddress(m, addr) /\ RegistryQuiet
    \/ \E addresses \in RootBootLists : boot_log = <<>> /\ BootMotes(addresses)

SpecRoot == InitRoot /\ [][NextRoot]_vars

(***************************************************************************)
(* Serial discovery: find_serial_ports, with the worker of each transient   *)
(* probe                                                                    *)
(***************************************************************************)

\* What glob returned for the port masks, in order.
CandidateLists ==
    {<<>>, <<"ttyUSB0">>, <<"ttyUSB1">>, <<"ttyUSB0", "ttyUSB1">>,
     <<"ttyUSB1", "ttyUSB0">>}

\* The baudrate argument.
BaudLists == {<<115200>>, <<115200, 57600>>, <<57600, 115200>>}

\* What one run of the SerialTester gives on a port at a rate: numOk >= 1,
\* numOk = 0, or an exception.
TestOutcomes == {"ok", "none", "error"}

ScanInputs ==
    {[ports |-> p, bauds |-> bd, opens |-> o, outcome |-> t] :
        p \in CandidateLists, bd \in BaudLists,
        o \in [{"ttyUSB0", "ttyUSB1"} -> BOOLEAN],
        t \in [{"ttyUSB0", "ttyUSB1"} -> [{115200, 57600} -> TestOutcomes]]}

\* An input says nothing of a port that is no candidate or does not open, nor
\* of a rate that is not in the list.
Relevant(in) ==
    /\ \A p \in {"ttyUSB0", "ttyUSB1"} :
          p \notin RangeOf(in.ports) => in.opens[p]
    /\ \A p \in {"ttyUSB0", "ttyUSB1"}, r \in {115200, 57600} :
          (p \notin RangeOf(in.ports) \/ ~in.opens[p] \/ r \notin RangeOf(in.bauds))
              => in.outcome[p][r] = "none"

\* MoteProbe(mqtt_broker_address=None, serial_port=(port, 115200)): the
\* constructor starts the worker; the serial attribute does not exist yet.
NewProbe(port) ==
    [port |-> port, worker |-> "started", has_serial |-> FALSE, quit |-> FALSE]

\* for port in serial_ports: probe = MoteProbe(...)
ScanProbePort ==
    /\ scan.pc = "for_port"
    /\ scan.i <= Len(scan.ports)
    /\ scan' = [scan EXCEPT !.probes = Append(@, NewProbe(scan.ports[scan.i])),
                            !.pc = "wait_serial"]

\* MoteProbe.run up to the read loop: serial.Serial(...) either gives the
\* serial attribute its value or raises, and the worker exits.
WorkerOpen(k) ==
    /\ scan.pc # "idle"
    /\ k \in DOMAIN scan.probes
    /\ scan.probes[k].worker = "started"
    /\ scan' = IF scan.opens[scan.probes[k].port]
               THEN [scan EXCEPT !.probes[k].worker = "reading",
                                 !.probes[k].has_serial = TRUE]
               ELSE [scan EXCEPT !.probes[k].worker = "exited"]

\* while not hasattr(probe, 'serial'): pass
ScanSerialSeen ==
    /\ scan.pc = "wait_serial"
    /\ scan.probes[scan.i].has_serial
    /\ scan' = [scan EXCEPT !.pc = "for_baud", !.b = 1]

\* One turn of 'for baud in baudrate', every rate that echoes being kept.
ScanTestBaudKeepsTesting ==
    /\ scan.pc = "for_baud"
    /\ IF scan.b > Len(scan.bauds)
       THEN scan' = [scan EXCEPT !.pc = "finally"]
       ELSE LET result == scan.outcome[scan.ports[scan.i]][scan.bauds[scan.b]]
            IN scan' = [scan EXCEPT
                           !.mote_ports =
                               IF result = "ok"
                               THEN Append(@, <<scan.ports[scan.i], scan.bauds[scan.b]>>)
                               ELSE @,
                           !.b = @ + 1]

\* One turn of 'for baud in baudrate': set the rate, run the tester, keep the
\* port and leave the loop on numOk >= 1; an exception leaves the loop too.
ScanTestBaud ==
    /\ scan.pc = "for_baud"
    /\ IF scan.b > Len(scan.bauds)
       THEN scan' = [scan EXCEPT !.pc = "finally"]
       ELSE LET result == scan.outcome[scan.ports[scan.i]][scan.bauds[scan.b]]
            IN CASE result = "ok" ->
                      scan' = [scan EXCEPT
                                  !.mote_ports = Append(@, <<scan.ports[scan.i],
                                                             scan.bauds[scan.b]>>),
                                  !.pc = "finally"]
                 [] result = "error" -> scan' = [scan EXCEPT !.pc = "finally"]
                 [] result = "none" -> scan' = [scan EXCEPT !.b = @ + 1]

\* finally: probe.close()
ScanClose ==
    /\ scan.pc = "finally"
    /\ scan' = [scan EXCEPT !.probes[scan.i].quit = TRUE, !.pc = "join"]

\* The worker leaves its read loop once quit is set.
WorkerQuit(k) ==
    /\ scan.pc # "idle"
    /\ k \in DOMAIN scan.probes
    /\ scan.probes[k].worker = "reading"
    /\ scan.probes[k].quit
    /\ scan' = [scan EXCEPT !.probes[k].worker = "exited"]

\* The scan going on to the next port without waiting for the worker.
ScanJoinedAtOnce ==
    /\ scan.pc = "join"
    /\ scan' = [scan EXCEPT !.i = @ + 1, !.pc = "for_port"]

\* finally: probe.join(), then the next port.
ScanJoined ==
    /\ scan.pc = "join"
    /\ scan.probes[scan.i].worker = "exited"
    /\ scan' = [scan EXCEPT !.i = @ + 1, !.pc = "for_port"]

\* return mote_ports
ScanReturn ==
    /\ scan.pc = "for_port"
    /\ scan.i > Len(scan.ports)
    /\ scan' = [scan EXCEPT !.pc = "returned"]

InitScan ==
    /\ InitProbe /\ wire = NoScript /\ NoSimulation /\ NoRegistry
    /\ finder = IdleFinder
    /\ \E in \in ScanInputs :
          /\ Relevant(in)
          /\ scan = [pc |-> "for_port", ports |-> in.ports, bauds |-> in.bauds,
                     opens |-> in.opens, outcome |-> in.outcome,
                     i |-> 1, b |-> 1, mote_ports |-> <<>>, probes |-> <<>>]

ScanQuiet ==
    /\ UNCHANGED probe_vars /\ UNCHANGED send_vars
    /\ UNCHANGED server_vars /\ UNCHANGED registry_vars /\ UNCHANGED finder

NextScan ==
    \/ ScanProbePort /\ ScanQuiet
    \/ \E k \in DOMAIN scan.probes : WorkerOpen(k) /\ ScanQuiet
    \/ ScanSerialSeen /\ ScanQuiet
    \/ ScanTestBaud /\ ScanQuiet
    \/ ScanClose /\ ScanQuiet
    \/ \E k \in DOMAIN scan.probes : WorkerQuit(k) /\ ScanQuiet
    \/ ScanJoined /\ ScanQuiet
    \/ ScanReturn /\ ScanQuiet

SpecScan == InitScan /\ [][NextScan]_vars

\* Every thread gets to run: the scanning thread and the workers.
SpecScanFair == SpecScan /\ WF_vars(NextScan)

(***************************************************************************)
(* Testbed discovery: OpentestbedMoteFinder *)
(***************************************************************************)

MaxResponses == 2   \* status responses delivered in one collection window

\* The 'motes' list of a status response, an entry being its EUI64 or
\* "no-eui" for an entry without that key.
MoteEntryLists ==
    {<<>>, <<"00-12-4b-01">>, <<"00-12-4b-02">>, <<"no-eui">>,
     <<"00-12-4b-01", "00-12-4b-02">>, <<"00-12-4b-01", "no-eui">>,
     <<"00-12-4b-01", "00-12-4b-01">>}

\* Payloads on the response topic: a status report with its list of motes, a
\* report of failure, which has no 'returnVal', and one that is not JSON.
StatusResponses ==
    {[kind |-> "status", motes |-> m] : m \in MoteEntryLists}
        \cup {[kind |-> "failure", motes |-> <<>>],
              [kind |-> "not-json", motes |-> <<>>]}

\* get_opentestbed_motelist up to loop_start.
FinderStart ==
    /\ finder.pc = "created"
    /\ finder' = [finder EXCEPT !.pc = "collecting"]

\* _on_mqtt_message: json.loads and the two subscripts raise on a payload
\* that is not a status report; nothing catches it.
OnStatusMessage(message) ==
    /\ finder.pc = "collecting"
    /\ finder' = [finder EXCEPT
                     !.received = Append(@, message),
                     !.raised = @ \/ message.kind # "status",
                     !.opentestbed_motelist =
                         IF message.kind = "status"
                         THEN @ \cup {e \in RangeOf(message.motes) : e # "no-eui"}
                         ELSE @]

\* The window is over: loop_stop, return self.opentestbed_motelist.
FinderReturn ==
    /\ finder.pc = "collecting"
    /\ finder' = [finder EXCEPT !.pc = "returned",
                                !.result = finder.opentestbed_motelist]

InitFinder ==
    /\ InitProbe /\ wire = NoScript /\ NoSimulation /\ NoRegistry
    /\ scan = IdleScan
    /\ finder = [pc |-> "created", opentestbed_motelist |-> {},
                 received |-> <<>>, raised |-> FALSE, result |-> {}]

FinderQuiet ==
    /\ UNCHANGED probe_vars /\ UNCHANGED send_vars
    /\ UNCHANGED server_vars /\ UNCHANGED registry_vars /\ UNCHANGED scan

NextFinder ==
    \/ FinderStart /\ FinderQuiet
    \/ \E message \in StatusResponses :
          Len(finder.received) < MaxResponses /\ OnStatusMessage(message) /\ FinderQuiet
    \/ FinderReturn /\ FinderQuiet

SpecFinder == InitFinder /\ [][NextFinder]_vars

(***************************************************************************)
(* Shutdown under fair scheduling *)

\* The worker thread runs whenever it can: the loop test is taken, a serial
\* read returns within its timeout (timeout=1, line 286), the emulated UART's
\* read returns, and get() returns when the queue holds a message.  Nothing
\* makes a TCP peer send, the broker deliver or a caller call: recv(1024) and
\* Queue.get() are called with no timeout (lines 308, 310).
Fairness ==
    /\ WF_vars(OpenTransport /\ Quiet)
    /\ WF_vars(CheckQuit /\ Quiet)
    /\ WF_vars(\E u \in Deliverable : SerialRead(u) /\ Quiet)
    /\ WF_vars(\E u \in Deliverable : EmulatedRead(u) /\ Quiet)
    /\ WF_vars(TestbedGet /\ Quiet)

SpecClose == Init /\ [][Next]_vars /\ Fairness

----------------------------------------------------------------------------
(* Properties of the acquisition worker, under Spec *)

Last(s) == s[Len(s)]

PublishedAt(at) == \E k \in 1..Len(published) : published[k].at = at

\* The frames that decoded, as publications.
AsPublications(hs) == [i \in 1..Len(hs) |-> [payload |-> hs[i].payload, at |-> hs[i].at]]
DecodedOk(h) == h.ok
DecodedOkWithConsumer(h) == h.ok /\ h.consumer

\* C2: the frames of a probe are published in the order in which their
\* terminating flag bytes arrived, whatever the split into read units: the
\* stream positions of the published frames' closing flags strictly increase.
C2_PublishedInWireOrder ==
    \A i, j \in 1..Len(published) : i < j => published[i].at < published[j].at

\* C2 witness: two frames have been published.
C2_Witness_TwoFramesPublished == Len(published) >= 2

\* C3 as stated: every frame whose decode succeeded has been delivered exactly
\* once, whenever in the probe's life it completed.
C3_EveryDecodedFrameDelivered ==
    published = AsPublications(SelectSeq(handed, DecodedOk))

\* C3 as amended: the frames delivered, each exactly once and in order, are
\* the frames whose decode succeeded while a consumer was assigned; a frame
\* that decodes before send_to_parser is assigned is dropped.
C3_DeliveredOnceWhileConsumerAttached ==
    published = AsPublications(SelectSeq(handed, DecodedOkWithConsumer))

\* C3 witness: a frame decoded with no consumer assigned, and a later one
\* was delivered.
C3_Witness_DroppedThenDelivered ==
    /\ \E i \in 1..Len(handed) : handed[i].ok /\ ~handed[i].consumer
    /\ Len(published) >= 1

\* A failed frame is not published, the probe is Idle once its closing flag
\* has been consumed, and the well-formed frame after it is published.
C4_FailureDiscardedState ==
    \A i \in 1..Len(handed) :
        ~handed[i].ok =>
            /\ ~PublishedAt(handed[i].at)
            /\ handed[i].at = nrx => ~is_receiving
            /\ (i < Len(handed) /\ handed[i + 1].ok) => PublishedAt(handed[i + 1].at)

NewFailure == \E i \in (Len(handed) + 1)..Len(handed') : ~handed'[i].ok

\* C4 as stated: a decode failure publishes nothing, leaves the probe Idle
\* and the worker at the head of its loop, and the next well-formed frame is
\* decoded and published.
C4_DecodeFailureThenNextPublished ==
    /\ []C4_FailureDiscardedState
    /\ [][NewFailure => worker' = "loop"]_vars

\* The same, the frame after the failed one being published provided a
\* consumer is assigned when it completes.
C4_FailureDiscardedStateAmended ==
    \A i \in 1..Len(handed) :
        ~handed[i].ok =>
            /\ ~PublishedAt(handed[i].at)
            /\ handed[i].at = nrx => ~is_receiving
            /\ (i < Len(handed) /\ handed[i + 1].ok /\ handed[i + 1].consumer)
                  => PublishedAt(handed[i + 1].at)

\* C4 as amended: a decode failure publishes nothing, leaves the probe Idle
\* and the worker at the head of its loop, and the next well-formed frame is
\* decoded, and published provided a consumer is assigned when it completes.
C4_DecodeFailureDiscarded ==
    /\ []C4_FailureDiscardedStateAmended
    /\ [][NewFailure => worker' = "loop"]_vars

\* C4 witness: a frame failed to decode and the frame after it was published.
C4_Witness_FailureThenPublished ==
    \E i \in 1..Len(handed) :
        /\ ~handed[i].ok
        /\ i < Len(handed) /\ handed[i + 1].ok
        /\ PublishedAt(handed[i + 1].at)

\* C5 as stated: whenever the probe is Idle the buffer is empty.
C5_BufferEmptyWhenIdle == ~is_receiving => input_buf = <<>>

\* C5 as amended: while InFrame the buffer is non-empty and begins with the
\* flag byte; while Idle it is empty until the first frame has completed, and
\* from then on it keeps the last completed frame (its payload if it decoded,
\* the frame as assembled if it did not) until the next frame starts.
C5_BufferWhenIdleIsLastFrame ==
    /\ is_receiving => (input_buf # <<>> /\ input_buf[1] = HDLC_FLAG)
    /\ (~is_receiving /\ handed = <<>>) => input_buf = <<>>
    /\ (~is_receiving /\ handed # <<>>) =>
          input_buf = IF Last(handed).ok THEN Last(handed).payload ELSE Last(handed).buf

\* C5 witness: the probe is Idle and the buffer holds a decoded payload.
C5_Witness_IdleWithBuffer ==
    /\ ~is_receiving
    /\ input_buf # <<>>
    /\ handed # <<>> /\ Last(handed).ok

\* C6: the escape-pending flag never survives more than one byte: it is
\* never set after two consecutive bytes.
C6_EscapeNeverSurvives == escape_run <= 1

----------------------------------------------------------------------------
(* Resynchronization, under SpecResync *)

PayloadsOf(pubs) == [i \in 1..Len(pubs) |-> pubs[i].payload]

ScriptConsumed == nrx = wire.total

\* C1 as stated: once a valid frame, a corrupted frame and another valid
\* frame have been consumed, exactly the two valid frames have been published,
\* in wire order.
C1_TwoValidFramesPublished ==
    ScriptConsumed => PayloadsOf(published) = <<wire.first, wire.second>>

\* C1 as amended: exactly the two valid frames have been decoded, in wire
\* order, the corrupted frame between them failed to decode and was not
\* published, and the frames published are the valid ones that completed
\* once a consumer was assigned: both, when it was assigned before the first
\* of them completed.
C1_ResyncAfterCorruptedFrame ==
    ScriptConsumed =>
        /\ Len(handed) = 3
        /\ handed[1].ok /\ handed[1].payload = wire.first
        /\ ~handed[2].ok /\ ~PublishedAt(handed[2].at)
        /\ handed[3].ok /\ handed[3].payload = wire.second
        /\ handed[1].consumer => PayloadsOf(published) = <<wire.first, wire.second>>
        /\ (~handed[1].consumer /\ handed[3].consumer) =>
               PayloadsOf(published) = <<wire.second>>
        /\ ~handed[3].consumer => published = <<>>

\* C1 witness: the script has been consumed and its two different valid
\* frames have been published in order.
C1_Witness_BothPublished ==
    /\ ScriptConsumed
    /\ wire.first # wire.second
    /\ PayloadsOf(published) = <<wire.first, wire.second>>

----------------------------------------------------------------------------
(* Properties of the send path, under SpecSend *)

IsPrefix(a, b) == Len(a) <= Len(b) /\ a = SubSeq(b, 1, Len(a))

Writers == {MODE_SERIAL, MODE_EMULATED}

\* C7: on the transports that are written to, the bytes the transport has
\* accepted during one send are at every moment the beginning of
\* encode(payload), and all of it once the send has returned.
C7_AcceptedBytesAreTheFrame ==
    \A t \in Senders :
        (mode \in Writers /\ senders[t].pc \in {"write", "done"}) =>
            /\ IsPrefix(senders[t].accepted, Hdlcify(senders[t].data))
            /\ senders[t].pc = "done" => senders[t].accepted = Hdlcify(senders[t].data)

MqttBy(t) == SelectSeq(mqtt_out, LAMBDA m : m.by = t)

\* C8 as stated: in every mode a send that has returned has handed
\* encode(payload) to the transport: written it (Serial, Emulated, Socket) or
\* published it on the command topic (Testbed).
C8_SendHandsFrameInEveryMode ==
    \A t \in Senders :
        senders[t].pc = "done" =>
            IF mode = MODE_TESTBED
            THEN \E i \in 1..Len(mqtt_out) :
                    mqtt_out[i] = [serialbytes |-> Hdlcify(senders[t].data), by |-> t]
            ELSE senders[t].ncalls >= 1 /\ senders[t].given = Hdlcify(senders[t].data)

\* C8 as amended: in Serial and Emulated mode every write call of a send is
\* given encode(payload), and a send that has returned has issued at least
\* one; in Testbed mode a send publishes encode(payload) once on the command
\* topic and writes nothing; in Socket (IoT-LAB) mode a send returns at once,
\* writing and publishing nothing.
C8_SendHandsFrameExceptIotlab ==
    \A t \in Senders :
        /\ senders[t].ncalls >= 1 =>
              (mode \in Writers /\ senders[t].given = Hdlcify(senders[t].data))
        /\ senders[t].pc = "done" =>
              /\ mode \in Writers => senders[t].ncalls >= 1
              /\ mode = MODE_TESTBED =>
                    MqttBy(t) = <<[serialbytes |-> Hdlcify(senders[t].data), by |-> t]>>
              /\ mode # MODE_TESTBED => MqttBy(t) = <<>>
              /\ mode = MODE_IOTLAB => (senders[t].ncalls = 0 /\ senders[t].accepted = <<>>)

\* C8 witness: a Serial send of a payload holding the flag byte has returned
\* and its write call was given the stuffed frame.
C8_Witness_StuffedFrameWritten ==
    \E t \in Senders :
        /\ mode = MODE_SERIAL
        /\ senders[t].pc = "done"
        /\ senders[t].data = <<HDLC_FLAG>>
        /\ senders[t].given = <<HDLC_FLAG, HDLC_ESCAPE, HDLC_FLAG_ESCAPED, HDLC_FLAG>>

\* C9: the bytes of two concurrent sends reach the transport one whole frame
\* after the other: no caller's bytes come both before and after another's.
C9_WritesNotInterleaved ==
    \A i, j \in 1..Len(turns) : i # j => turns[i] # turns[j]

----------------------------------------------------------------------------
(* Shutdown, under SpecClose *)

\* C10: once close() has been called on a running probe, its acquisition
\* loop eventually exits.
C10_CloseEventuallyExits ==
    (quit /\ worker \in {"loop", "read"}) ~> (worker = "exited")

----------------------------------------------------------------------------
(* The transports of the acquisition worker, under Spec *)

\* C11: on every exit path of the worker and for every transport, the
\* handle the probe acquired has been released once the worker has terminated.
C11_HandleReleasedOnExit == worker = "exited" => serial # "open"

\* C12: in Socket mode a receive that returned nothing (the peer closed the
\* connection) ends the acquisition loop: no further receive is issued.
C12_NoReceiveAfterPeerClosed ==
    ~(mode = MODE_IOTLAB /\ peer_closed /\ worker = "read")

\* C13: in Emulated mode every unit read from the emulated UART is followed
\* by exactly one done-reading signal, issued once all the bytes of the unit
\* have been run through frame assembly and before the next read: between
\* the worker's steps no unit is held, no read or signal came out of turn, and
\* the last signal was given with every byte consumed so far.
C13_DoneReadingAfterEveryUnit ==
    IF mode = MODE_EMULATED
    THEN uart.state = "idle" /\ uart.done_at = nrx
    ELSE uart = IdleUart

\* C13 witness: the emulated worker is about to issue a read after units
\* holding two bytes or more have been consumed and signalled.
C13_Witness_SignalledBeforeNextRead ==
    /\ mode = MODE_EMULATED
    /\ worker = "read"
    /\ uart.done_at >= 2
    /\ is_receiving

\* C15: a serial read that times out with no byte changes nothing in the
\* frame-assembly state, publishes nothing, and leaves the worker at the head
\* of its loop with the port open.
C15_SerialTimeoutIsBenign ==
    [][SerialRead(<<>>) =>
          /\ UNCHANGED <<is_receiving, input_buf, xonxoff_escaping, last_rx_byte>>
          /\ UNCHANGED <<published, handed, nrx>>
          /\ worker' = "loop"
          /\ serial' = "open"]_vars

\* C15 witness: a serial read timed out in the middle of a frame and the
\* worker has gone on to the next read.
C15_Witness_TimeoutInFrame ==
    /\ mode = MODE_SERIAL
    /\ timed_out
    /\ is_receiving /\ Len(input_buf) >= 2
    /\ worker = "read"

----------------------------------------------------------------------------
(* Queue backpressure, under SpecBurst *)

\* C14: the inbound queue never holds more than its capacity; a message
\* arriving while the queue is full is dropped and leaves the queued items and
\* their order unchanged, a message arriving otherwise is queued last; and the
\* MQTT callback can always run to its end, whatever the worker is doing.
C14_OverflowDroppedWithoutBlocking ==
    /\ [](Len(serialbytes_queue) <= QUEUE_MAXSIZE)
    /\ [](\A m \in BurstArrivable : ENABLED OnMqttMessage(m))
    /\ [][\A m \in BurstMessages :
            OnMqttMessage(m) =>
                /\ serialbytes_queue' =
                       IF Len(serialbytes_queue) = QUEUE_MAXSIZE
                       THEN serialbytes_queue
                       ELSE Append(serialbytes_queue, m)
                /\ worker' = worker]_vars

\* C14 witness: a message was dropped on a full queue, the worker has since
\* consumed messages, and the queue, refilled, holds both kinds of message.
C14_Witness_DroppedOnFullQueue ==
    /\ overflowed
    /\ nrx >= 1
    /\ Len(serialbytes_queue) = QUEUE_MAXSIZE
    /\ \E i, j \in 1..Len(serialbytes_queue) :
           serialbytes_queue[i] # serialbytes_queue[j]

----------------------------------------------------------------------------
(* The boot command, under SpecBoot *)

Simulated == simulator_mode > 0

BootAllCmd(c) == c.addresses = <<"all">>

\* C16: every boot_motes command in simulated mode pauses the clock once and
\* resumes it once before it returns or faults, and the clock is never left
\* paused once a command has ended.
C16_ClockResumedOncePerCommand ==
    Simulated =>
        /\ \A i \in 1..Len(boot_log) :
               boot_log[i].pauses = 1 /\ boot_log[i].resumes = 1
        /\ ~sim_paused

\* C17: boot_motes(['all']) against motes that are all unpowered schedules
\* exactly one power-on event for each mote, all at the clock time read after
\* pausing, and returns true.
C17_BootAllPowersEachMoteOnce ==
    \A i \in 1..Len(boot_log) :
        (Simulated /\ BootAllCmd(boot_log[i]) /\ boot_log[i].all_off) =>
            /\ boot_log[i].returned = "true"
            /\ boot_log[i].scheduled =
                   [k \in 1..simulator_mode |-> [at |-> boot_log[i].now, mote |-> k]]

\* C17 witness: with the clock advanced, two unpowered motes have been booted
\* by boot_motes(['all']) and both events have been executed.
C17_Witness_TwoMotesPowered ==
    /\ simulator_mode = 2
    /\ Len(boot_log) = 1 /\ BootAllCmd(boot_log[1])
    /\ boot_log[1].now = 1
    /\ mote_on = <<TRUE, TRUE>>

\* C18: once boot_motes(['all']) has returned true, a later boot_motes(['all'])
\* faults with 'already booted' and schedules no power-on event, however it
\* is interleaved with the engine's execution of the first command's events.
C18_SecondBootAllFaults ==
    \A i, j \in 1..Len(boot_log) :
        (/\ Simulated /\ i < j
         /\ BootAllCmd(boot_log[i]) /\ boot_log[i].returned = "true"
         /\ BootAllCmd(boot_log[j])) =>
            /\ boot_log[j].fault = "already booted"
            /\ boot_log[j].scheduled = <<>>

\* An address that is the id of no simulated mote.
NoMote(a) == ~(IntOf(a).ok /\ IntOf(a).value \in 1..simulator_mode)

\* C19: boot_motes with a list holding an address that matches no simulated
\* mote faults: it does not return true.
C19_UnknownAddressFaults ==
    \A i \in 1..Len(boot_log) :
        (/\ Simulated /\ ~BootAllCmd(boot_log[i])
         /\ \E k \in 1..Len(boot_log[i].addresses) : NoMote(boot_log[i].addresses[k])) =>
            boot_log[i].returned # "true"

\* C20: on real hardware boot_motes faults with 'not supported' whatever its
\* argument, without pausing or resuming a clock and without scheduling an
\* event.
C20_BootNotSupportedOnHardware ==
    ~Simulated =>
        /\ \A i \in 1..Len(boot_log) :
               /\ boot_log[i].fault = "not supported"
               /\ boot_log[i].pauses = 0 /\ boot_log[i].resumes = 0
               /\ boot_log[i].scheduled = <<>>
        /\ ~sim_paused
        /\ timeline = <<>>

\* C20 witness: on real hardware two boot commands with different arguments,
\* one of them ['all'], have ended.
C20_Witness_TwoCommandsOnHardware ==
    /\ ~Simulated
    /\ Len(boot_log) = 2
    /\ BootAllCmd(boot_log[1])
    /\ boot_log[2].addresses = <<"1", "9">>

----------------------------------------------------------------------------
(* Frame boundaries, under Spec *)

\* C29: every buffer handed to the codec's decode operation begins with the
\* flag byte and ends with the flag byte that completed the frame.
C29_HandedBufferFlagDelimited ==
    \A i \in 1..Len(handed) :
        /\ handed[i].buf[1] = HDLC_FLAG
        /\ Last(handed[i].buf) = HDLC_FLAG

\* A read unit of one byte, other than the flag, is consumed while the probe
\* is Idle and the previous byte is the flag; the byte is last_rx_byte'.
StartOfFrameStep ==
    /\ worker = "read" /\ worker' = "loop"
    /\ nrx' = nrx + 1
    /\ ~is_receiving
    /\ last_rx_byte = HDLC_FLAG
    /\ last_rx_byte' # HDLC_FLAG

\* C30 as stated: such a byte b makes the probe InFrame with its buffer reset
\* to exactly the flag byte followed by b, for every b.
C30_StartOfFrameBufferIsFlagAndByte ==
    [][StartOfFrameStep =>
          /\ is_receiving'
          /\ input_buf' = <<HDLC_FLAG, last_rx_byte'>>]_vars

\* C30 as amended: such a byte b makes the probe InFrame with its buffer
\* reset to the flag byte followed by what flow-control absorption leaves of
\* b: b itself, or nothing when b is XON, XOFF or the flow-control escape
\* byte, the escape byte leaving the escape pending.
C30_StartOfFrameBufferAfterAbsorption ==
    [][StartOfFrameStep =>
          /\ is_receiving'
          /\ input_buf' = IF last_rx_byte' \in {XON, XOFF, XONXOFF_ESCAPE}
                          THEN <<HDLC_FLAG>>
                          ELSE <<HDLC_FLAG, last_rx_byte'>>
          /\ xonxoff_escaping' = (last_rx_byte' = XONXOFF_ESCAPE)]_vars

\* C30 witness: after a first frame has completed, a frame has been started
\* by XON and its buffer holds the flag byte only.
C30_Witness_FrameStartedByXon ==
    /\ handed # <<>>
    /\ is_receiving
    /\ last_rx_byte = XON
    /\ input_buf = <<HDLC_FLAG>>
    /\ Last(handed).at = nrx - 1

(***************************************************************************)
(* Root selection and state lookup, under SpecRegistry *)
(***************************************************************************)

\* Mote m goes by x: x is its port name, or its address as get_mote_dict
\* gives it.
GoesBy(m, x) ==
    \/ mote_probes[m] = x
    \/ mote_addr[m] # UnknownAddress /\ HexOf(mote_addr[m]) = x

\* C21: set_root(x) with x neither the port name nor the address of a mote
\* of the registry ends in a fault that names the argument, triggers the
\* root transition on no mote and leaves the recorded root alone.
C21_UnknownRootArgumentFaults ==
    [][\A x \in RootArguments, failing \in BOOLEAN :
          (SetRoot(x, failing) /\ \A m \in DOMAIN mote_probes : ~GoesBy(m, x))
              => /\ last_rpc'.result = "fault"
                 /\ last_rpc'.fault \in {"Unknown port or address",
                                         "Could not set as root"}
                 /\ last_rpc'.triggered = <<>>
                 /\ dagroot' = dagroot]_vars

C21_Witness_UnboundPortRefused ==
    /\ last_rpc.op = "set_root" /\ last_rpc.arg = "COM7"
    /\ last_rpc.result = "fault"
    /\ last_rpc.fault = "Unknown port or address"
    /\ Len(mote_probes) = 2
    /\ \A m \in DOMAIN mote_probes : mote_addr[m] # UnknownAddress

\* C22: set_root(x) with x the port name or the address of a mote of the
\* registry, and a transition that does not fail, triggers the transition on
\* exactly that mote, returns true and records that mote's address as the
\* root; get_dagroot then returns the address of the mote of the last
\* set_root that returned.
C22_KnownRootArgumentSucceeds ==
    [][/\ \A x \in RootArguments :
             (SetRoot(x, FALSE) /\ \E m \in DOMAIN mote_probes : GoesBy(m, x))
                 => \E m \in DOMAIN mote_probes :
                       /\ GoesBy(m, x)
                       /\ last_rpc'.result = "true"
                       /\ last_rpc'.triggered = <<m>>
                       /\ dagroot' = mote_addr[m]
       /\ (GetDagroot /\ root_mote # 0)
                 => last_rpc'.value = mote_addr[root_mote]]_vars

C28_PortNamesDistinct ==
    \A i, j \in DOMAIN mote_probes :
        i # j => mote_probes[i] # mote_probes[j]

(***************************************************************************)
(* Serial discovery, under SpecScan and SpecScanFair *)
(***************************************************************************)

\* Port p completes an echo round trip at the b-th rate of the list: the
\* tester reports numOk >= 1 there, and at every earlier rate it ran and
\* reported none.
EchoesFirstAt(p, b) ==
    /\ scan.opens[p]
    /\ scan.outcome[p][scan.bauds[b]] = "ok"
    /\ \A c \in 1..(b - 1) : scan.outcome[p][scan.bauds[c]] = "none"

EchoingPorts ==
    {pb \in RangeOf(scan.ports) \X RangeOf(scan.bauds) :
        \E b \in DOMAIN scan.bauds :
            pb[2] = scan.bauds[b] /\ EchoesFirstAt(pb[1], b)}

C25_ScanReturnsDespiteOpenFailure ==
    <>(scan.pc = "returned" /\ RangeOf(scan.mote_ports) = EchoingPorts)

\* C26: once the scan has moved on from a candidate, or has returned, the
\* probe created for that candidate has been closed and its worker has
\* exited, whatever the tests gave; and close has been called on no probe but
\* the one of the candidate the scan is done testing.
C26_TransientProbeReleased ==
    \A k \in DOMAIN scan.probes :
        /\ (k < scan.i \/ scan.pc = "returned")
              => scan.probes[k].quit /\ scan.probes[k].worker = "exited"
        /\ scan.probes[k].quit
              => k < scan.i \/ (k = scan.i /\ scan.pc = "join")

C26_Witness_AcceptedThenError ==
    /\ scan.pc = "returned"
    /\ Len(scan.probes) = 2
    /\ Len(scan.mote_ports) = 1
    /\ scan.mote_ports[1][1] = scan.ports[1]
    /\ scan.outcome[scan.ports[2]][scan.bauds[1]] = "error"

(***************************************************************************)
(* Testbed discovery, under SpecFinder *)
(***************************************************************************)

\* The EUI64 identifiers the received status reports carry.
IdentifiersReceived ==
    {e \in Euis : \E i \in DOMAIN finder.received :
                     /\ finder.received[i].kind = "status"
                     /\ e \in RangeOf(finder.received[i].motes)}

\* C27: the finder returns exactly the identifiers carried by the responses
\* received in the window, and a response or an entry without the identifier
\* raises no error.
C27_FinderCollectsWithoutError ==
    /\ ~finder.raised
    /\ finder.pc = "returned" => finder.result = IdentifiersReceived

(***************************************************************************)
(* Flow-control absorption and flag runs, under Spec *)
(***************************************************************************)

\* A read unit of one byte, not the flag, consumed while InFrame.
InFrameByteStep ==
    /\ worker = "read" /\ worker' = "loop"
    /\ nrx' = nrx + 1
    /\ is_receiving
    /\ last_rx_byte' # HDLC_FLAG

\* C31: while InFrame, the byte that follows an escape is appended XORed with
\* the mask; otherwise the escape byte, XON and XOFF are not appended and
\* every other byte is appended unchanged.
C31_FlowControlAbsorbedInFrame ==
    [][InFrameByteStep =>
          input_buf' =
              IF xonxoff_escaping
              THEN Append(input_buf, XorMask(last_rx_byte', XONXOFF_MASK))
              ELSE IF last_rx_byte' \in {XONXOFF_ESCAPE, XON, XOFF}
              THEN input_buf
              ELSE Append(input_buf, last_rx_byte')]_vars

\* A read unit of k >= 1 flag bytes.
FlagRuns == {u \in Units : u # <<>> /\ \A i \in DOMAIN u : u[i] = HDLC_FLAG}

\* The worker consumes the read unit u, whatever the transport.
Consumes(u) ==
    \/ SerialRead(u)
    \/ EmulatedRead(u)
    \/ SocketRecv(u)
    \/ TestbedGet /\ Head(serialbytes_queue) = u

\* C32: when the probe is Idle and the previous byte is the flag, consuming
\* one or more flag bytes leaves the assembly state as it was: still Idle,
\* previous byte the flag, the buffer and the escape flag untouched, nothing
\* handed to decode and nothing published.
C32_FlagRunLeavesAssemblyState ==
    [][\A u \in FlagRuns :
          (Consumes(u) /\ ~is_receiving /\ last_rx_byte = HDLC_FLAG)
              => UNCHANGED <<is_receiving, last_rx_byte, input_buf,
                             xonxoff_escaping, handed, published>>]_vars

\* Two flag bytes have followed the flag that closed the only frame.
C32_Witness_TwoFlagsAfterFrame ==
    /\ Len(handed) = 1
    /\ nrx = Last(handed).at + 2
    /\ ~is_receiving
    /\ last_rx_byte = HDLC_FLAG

(***************************************************************************)
(* Termination of the write loop, under SpecSend *)
(***************************************************************************)

\* C33: with every write call accepting at least one byte, the write loop
\* ends: the count of bytes written, which grows at every call, reaches the
\* length of the frame and never passes it (the loop ends on equality only).
C33_WriteLoopReachesLength ==
    \A t \in Senders :
        senders[t].bytes_written <= Len(senders[t].hdlc_data)

(***************************************************************************)
(* Chunk-boundary independence, under SpecChunks *)
(***************************************************************************)

\* The assembly state of a probe just constructed.
FreshAsmState ==
    [is_receiving |-> FALSE, xonxoff_escaping |-> FALSE, input_buf |-> <<>>,
     last_rx_byte |-> HDLC_FLAG, published |-> <<>>, handed |-> <<>>,
     escape_run |-> 0, nrx |-> 0]

\* The stream read so far, run through the per-byte loop as one unit.
Unsplit == ProcessUnit(FreshAsmState, SubSeq(wire.stream, 1, nrx), TRUE)

\* The frames of h that went to an assigned consumer.
RECURSIVE Delivered(_)
Delivered(h) ==
    IF h = <<>> THEN <<>>
    ELSE (IF Head(h).ok /\ Head(h).consumer
          THEN <<[payload |-> Head(h).payload, at |-> Head(h).at]>>
          ELSE <<>>) \o Delivered(Tail(h))

\* C34: however the stream is split into read units, the buffers handed to
\* decode, their outcomes and the assembly state are those of the bytes read
\* so far taken as a single unit, and what is published is the decoded
\* frames among them, in order (those that found a consumer assigned).
C34_FramesIndependentOfReadUnits ==
    /\ Len(handed) = Len(Unsplit.handed)
    /\ \A i \in DOMAIN handed :
          /\ handed[i].buf = Unsplit.handed[i].buf
          /\ handed[i].at = Unsplit.handed[i].at
          /\ handed[i].ok = Unsplit.handed[i].ok
          /\ handed[i].payload = Unsplit.handed[i].payload
    /\ published = Delivered(handed)
    /\ is_receiving = Unsplit.is_receiving
    /\ input_buf = Unsplit.input_buf
    /\ last_rx_byte = Unsplit.last_rx_byte
    /\ xonxoff_escaping = Unsplit.xonxoff_escaping

\* A frame of three bytes read one byte at a time has been handed to decode
\* and published.
C34_Witness_FrameAcrossUnits ==
    /\ mode = MODE_SERIAL
    /\ nrx = wire.total
    /\ handed # <<>> /\ Last(handed).ok
    /\ Len(Last(handed).buf) >= 3
    /\ published # <<>>

\* A flag byte is among the first n bytes of the stream.
FlagReceivedWithin(n) == \E i \in 1..n : wire.stream[i] = HDLC_FLAG

\* C35: the probe is InFrame only when a flag byte has been received on its
\* stream, and a buffer handed to decode was opened by a flag byte received
\* before the flag that closed it.
C35_InFrameOnlyAfterReceivedFlag ==
    /\ is_receiving => FlagReceivedWithin(nrx)
    /\ \A i \in DOMAIN handed : FlagReceivedWithin(handed[i].at - 1)

(***************************************************************************)
(* Events scheduled by one boot command, under SpecBoot *)
(***************************************************************************)

\* C36: one boot_motes call schedules at most one power-on event for a mote.
C36_OnePowerOnPerMoteAndCommand ==
    \A i \in DOMAIN boot_log :
        \A j, k \in DOMAIN boot_log[i].scheduled :
            j # k => boot_log[i].scheduled[j].mote # boot_log[i].scheduled[k].mote

\* C37: a boot_motes call that ended in a fault has scheduled no event.
C37_FaultedCommandScheduledNothing ==
    \A i \in DOMAIN boot_log :
        boot_log[i].returned = "fault" => boot_log[i].scheduled = <<>>

(***************************************************************************)
(* Read units after close(), under Spec *)
(***************************************************************************)

\* C38: after close() has been called the worker processes at most one more
\* read unit; and once its loop has exited, no buffer is handed to decode,
\* nothing is published and no byte is consumed.
C38_AtMostOneUnitAfterClose ==
    [][/\ units_after_close' <= 1
       /\ worker = "exited" => UNCHANGED <<published, handed, nrx, input_buf>>]_vars

\* The unit whose read was pending when close() was called has closed a frame,
\* which was published, and the worker has exited.
C38_Witness_PendingUnitPublished ==
    /\ worker = "exited"
    /\ units_after_close = 1
    /\ published # <<>>
    /\ Last(published).at = nrx

(***************************************************************************)
(* Malformed inbound messages, under SpecMalformed (close() is not called) *)
(***************************************************************************)

\* C39: whatever the inbound messages carry, the acquisition loop of the
\* probe does not end.
C39_MalformedMessageKeepsLoopRunning == worker # "exited"


(***************************************************************************)
(* The recorded root, under SpecRoot *)
(***************************************************************************)

\* C40: the recorded DAG root changes only in a set_root call that returns
\* true: a set_root call that faults leaves it as it was, get_dagroot
\* returns none as long as no set_root has returned true, and
\* get_mote_dict, get_mote_state, get_dagroot and boot_motes leave it as it
\* was.
C40_RootChangesOnlyOnSuccessfulSetRoot ==
    [][/\ dagroot' # dagroot
            => /\ \E x \in RootArguments : SetRoot(x, FALSE)
               /\ last_rpc'.result = "true"
               /\ ~GetDagroot
               /\ ~GetMoteDictCall
               /\ \A a \in MoteIds : ~GetMoteState(a)
               /\ \A addresses \in RootBootLists : ~BootMotes(addresses)
       /\ (/\ last_rpc'.op = "set_root"
           /\ last_rpc'.result = "fault"
           /\ \E x \in RootArguments, failing \in BOOLEAN : SetRoot(x, failing))
            => dagroot' = dagroot
       /\ (root_mote = 0 /\ GetDagroot) => last_rpc'.value = UnknownAddress]_vars

\* A root is recorded, a boot command has run, and the last command is a
\* set_root whose transition failed: the recorded root is still there.
C40_Witness_RootSurvivesFaultAndBoot ==
    /\ root_mote # 0
    /\ dagroot = mote_addr[root_mote]
    /\ dagroot # UnknownAddress
    /\ boot_log # <<>>
    /\ last_rpc.op = "set_root" /\ last_rpc.result = "fault"
    /\ last_rpc.triggered # <<>>
    /\ last_rpc.triggered # <<root_mote>>

=============================================================================
